---- MODULE Spec2Model ----
(***************************************************************************)
(* A model of the crypto-metrics collector (src/server.js): the in-memory  *)
(* snapshot store with its 24 h history, venue detection and its caches,   *)
(* the per-instrument snapshot assembly (buildSnapshot) with one step per  *)
(* awaited upstream response, the poll loop (pollAll / bootstrap /         *)
(* setInterval), the two HTTP read paths (/api/now, /api/history) and the  *)
(* rule-based signal engine (makeSignal).                                  *)
(*                                                                         *)
(* Conventions.                                                            *)
(*  - A JavaScript value that may be null is a sequence of length <= 1:    *)
(*    Null is <<>> and Some(v) is <<v>>.                                   *)
(*  - Prices and open interest are integers; a funding rate is an integer  *)
(*    number of 1e-4 (0.0002 is 2).  A percentage is the exact fraction    *)
(*    <<num, den>> with den > 0, so that threshold comparisons are exact.  *)
(*  - JavaScript runs a callback to its next await without interleaving:   *)
(*    one action is one such run (a request arriving, a timer firing, a    *)
(*    response arriving), carried on to the next awaited upstream call.    *)
(***************************************************************************)
EXTENDS Integers, Sequences, FiniteSets, TLC

Null == <<>>
Some(v) == <<v>>
Val(x) == x[1]

(***************************************************************************)
(* CONFIG (src/server.js 9-19)                                             *)
(***************************************************************************)
SYMBOLS == <<"ALICEUSDT", "LUMIAUSDT">>
PRICE_MOVE_15M_PCT == 3
OI_MOVE_4H_PCT == 5
\* 0.0005 and -0.0005 in units of 1e-4
FUNDING_CROWD_LONG == 5
FUNDING_CROWD_SHORT == -5

(***************************************************************************)
(* UTIL: pct (src/server.js 43-46).  ((b - a) / a) * 100 as the fraction   *)
(* <<(b - a) * 100, a>>, normalised to a positive denominator.             *)
(***************************************************************************)
\* a percentage change without the zero-base guard
pctUnguarded(a, b) ==
  IF a = Null \/ b = Null THEN Null
  ELSE IF Val(a) >= 0 THEN <<(Val(b) - Val(a)) * 100, Val(a)>>
  ELSE <<(Val(a) - Val(b)) * 100, 0 - Val(a)>>

pct(a, b) ==
  IF a = Null \/ b = Null \/ a = Some(0) THEN Null
  ELSE IF Val(a) > 0 THEN <<(Val(b) - Val(a)) * 100, Val(a)>>
  ELSE <<(Val(a) - Val(b)) * 100, 0 - Val(a)>>

\* comparisons of a fraction with an integer percentage
FracGeq(f, k) == f[1] >= k * f[2]
FracLeq(f, k) == f[1] <= k * f[2]
FracPos(f) == f[1] > 0
\* Math.sign
Sign(n) == IF n > 0 THEN 1 ELSE IF n < 0 THEN -1 ELSE 0

(***************************************************************************)
(* SIGNAL ENGINE: makeSignal (src/server.js 169-203).  Each rule is the    *)
(* pair of its score contribution and the reasons it pushes; a reason is   *)
(* kept as its fixed text, without the formatted number.                   *)
(***************************************************************************)
\* JavaScript (dp15 && dp15 > 0): null, 0 and negative values are all false
PriceUp(dp15) == dp15 # Null /\ FracPos(dp15)

\* a price rule whose thresholds are exclusive
PriceRuleStrict(dp15) ==
  IF dp15 = Null THEN [score |-> 0, reasons |-> <<>>]
  ELSE IF ~FracLeq(dp15, PRICE_MOVE_15M_PCT) THEN [score |-> 2, reasons |-> <<"Price +">>]
  ELSE IF ~FracGeq(dp15, 0 - PRICE_MOVE_15M_PCT) THEN [score |-> -2, reasons |-> <<"Price -">>]
  ELSE [score |-> 0, reasons |-> <<>>]

\* lines 177-180
PriceRule(dp15) ==
  IF dp15 = Null THEN [score |-> 0, reasons |-> <<>>]
  ELSE IF FracGeq(dp15, PRICE_MOVE_15M_PCT) THEN [score |-> 2, reasons |-> <<"Price +">>]
  ELSE IF FracLeq(dp15, 0 - PRICE_MOVE_15M_PCT) THEN [score |-> -2, reasons |-> <<"Price -">>]
  ELSE [score |-> 0, reasons |-> <<>>]

\* an open-interest rule that ignores the price delta
OiRuleFlat(doi4h, dp15) ==
  IF doi4h = Null THEN [score |-> 0, reasons |-> <<>>]
  ELSE IF FracGeq(doi4h, OI_MOVE_4H_PCT) THEN [score |-> 1, reasons |-> <<"OI +">>]
  ELSE IF FracLeq(doi4h, 0 - OI_MOVE_4H_PCT) THEN [score |-> 0, reasons |-> <<"OI -">>]
  ELSE [score |-> 0, reasons |-> <<>>]

\* lines 181-187
OiRule(doi4h, dp15) ==
  IF doi4h = Null THEN [score |-> 0, reasons |-> <<>>]
  ELSE IF FracGeq(doi4h, OI_MOVE_4H_PCT)
    THEN [score |-> IF PriceUp(dp15) THEN 2 ELSE 1, reasons |-> <<"OI +">>]
  ELSE IF FracLeq(doi4h, 0 - OI_MOVE_4H_PCT)
    THEN [score |-> IF PriceUp(dp15) THEN 1 ELSE 0, reasons |-> <<"OI -">>]
  ELSE [score |-> 0, reasons |-> <<>>]

\* lines 188-190
FlipRule(fundingPrev, fundingNow) ==
  IF fundingPrev # Null /\ fundingNow # Null /\ Sign(Val(fundingPrev)) # Sign(Val(fundingNow))
  THEN [score |-> 1, reasons |-> <<"Funding flip">>]
  ELSE [score |-> 0, reasons |-> <<>>]

\* a crowding rule that weighs crowded longs twice
CrowdRuleDouble(fundingNow) ==
  IF fundingNow = Null THEN [score |-> 0, reasons |-> <<>>]
  ELSE LET long == Val(fundingNow) > FUNDING_CROWD_LONG * 3
           short == Val(fundingNow) < FUNDING_CROWD_SHORT * 3
       IN [score |-> (IF long THEN -2 ELSE 0) + (IF short THEN 1 ELSE 0),
           reasons |-> (IF long THEN <<"Crowded longs">> ELSE <<>>)
                       \o (IF short THEN <<"Crowded shorts">> ELSE <<>>)]

\* lines 191-194
CrowdRule(fundingNow) ==
  IF fundingNow = Null THEN [score |-> 0, reasons |-> <<>>]
  ELSE LET long == Val(fundingNow) > FUNDING_CROWD_LONG * 3
           short == Val(fundingNow) < FUNDING_CROWD_SHORT * 3
       IN [score |-> (IF long THEN -1 ELSE 0) + (IF short THEN 1 ELSE 0),
           reasons |-> (IF long THEN <<"Crowded longs">> ELSE <<>>)
                       \o (IF short THEN <<"Crowded shorts">> ELSE <<>>)]

FlowRule(netFlowBase) ==
  IF netFlowBase = Null THEN [score |-> 0, reasons |-> <<>>]
  ELSE IF Val(netFlowBase) >= 0 THEN [score |-> 0, reasons |-> <<"Money flow +">>]
  ELSE [score |-> 0, reasons |-> <<"Money flow -">>]

\* a classification whose BUY threshold is exclusive
ClassifyStrict(score) ==
  IF score > 3 THEN "BUY" ELSE IF score <= -2 THEN "SELL" ELSE "NEUTRAL"

\* line 201
Classify(score) ==
  IF score >= 3 THEN "BUY" ELSE IF score <= -2 THEN "SELL" ELSE "NEUTRAL"

makeSignal(s) ==
  LET dp15 == pct(s.price15mAgo, s.priceNow)
      doi4h == pct(s.oi4hAgo, s.oiNow)
      r1 == PriceRule(dp15)
      r2 == OiRule(doi4h, dp15)
      r3 == FlipRule(s.fundingPrev, s.fundingNow)
      r4 == CrowdRule(s.fundingNow)
      r5 == FlowRule(s.netFlowBase)
      score == r1.score + r2.score + r3.score + r4.score + r5.score
  IN [signal |-> Classify(score), score |-> score,
      reasons |-> r1.reasons \o r2.reasons \o r3.reasons \o r4.reasons \o r5.reasons,
      dp15 |-> dp15, doi4h |-> doi4h]

(***************************************************************************)
(* Time.  The clock counts units of unitMs milliseconds (a variable fixed  *)
(* at start: a coarse unit to watch the 24 h window, half the request     *)
(* timeout as the unit to watch the poll timer).                           *)
(***************************************************************************)
\* keepHistory's default maxMs (line 30), the axios timeout (22-24) and the
\* default POLL_SECONDS (line 13)
MaxMs == 24 * 60 * 60 * 1000
TimeoutMs == 10000
POLL_SECONDS == 900
\* the two clock units used: one retention window, and one request timeout
CoarseUnitMs == MaxMs
FineUnitMs == TimeoutMs \div 2

\* bounds of the model: the last clock reading, the timer ticks and the
\* /api/now requests of a run
MaxTime == 2
MaxPolls == 2
MaxGets == 1

VARIABLES
  now,          \* Date.now(), in clock units
  cfg,          \* the run's configuration and surroundings: unitMs (the
                \* milliseconds per clock unit), pollMs (POLL_SECONDS * 1000),
                \* tracked (SYMBOLS), env (endpoint -> the payloads the
                \* upstream may answer with), horizon (the last clock reading)
  store,        \* Map symbol -> [snapshot, history]
  appended,     \* symbol -> every keepHistory call so far: its snapshot and
                \* the clock reading it took its cutoff from
  spotListed,   \* Map symbol -> BOOLEAN
  usdMListed,   \* Map symbol -> BOOLEAN
  coinMPerp,    \* Map baseAsset -> COIN-M perpetual symbol
  task,         \* the running pollAll passes and /api/now requests
  timerArmed,   \* setInterval has been called
  nextFire,     \* clock reading of the next timer tick
  polls,        \* timer ticks so far
  gets,         \* /api/now requests so far
  resp,         \* the last pollAll result or /api/now response
  hresp,        \* the last /api/history response
  bundle,       \* signal engine: the derived-metrics bundle under evaluation
  sig           \* signal engine: makeSignal(bundle) once evaluated

vars == <<now, cfg, store, appended, spotListed, usdMListed, coinMPerp,
          task, timerArmed, nextFire, polls, gets, resp, hresp, bundle, sig>>

(***************************************************************************)
(* Upstream payloads.  A candle row is <<close, age>>: k[4] and the age in *)
(* minutes of its close time k[6] when the assembly derives its deltas     *)
(* (negative: the candle is still open); <<>> is a null row.               *)
(***************************************************************************)
K15 == << <<100, 29>>, <<101, 14>>, <<104, -1>> >>
K4h == << <<90, 479>>, <<95, 239>>, <<104, -1>> >>
KBad == << <<>> >>
Ticker == [price |-> 104, volume |-> 10, takerBuyBase |-> 6, quoteVolume |-> 1040]
Premium == [lastFundingRate |-> -1, nextFundingTime |-> 1, markPrice |-> 104]
Liq == [side |-> "SELL", price |-> 104, qty |-> 1]

\* what each endpoint may answer: Null is a failed request (timeout, network
\* error, non-2xx); the metadata probes answer TRUE (2xx) or FALSE
FullEnv ==
  [spotInfo |-> {TRUE, FALSE}, usdmInfo |-> {TRUE, FALSE},
   coinmInfo |-> {Null, Some({}), Some({"ALICE"})},
   spot24 |-> {Null, Some(Ticker)},
   kl15 |-> {Null, Some(<<>>), Some(K15), Some(KBad)},
   kl4h |-> {Null, Some(K4h), Some(KBad)},
   pi |-> {Null, Some(Premium)},
   fh |-> {Null, Some(<<2, -1>>)},
   oi |-> {Null, Some(1060)},
   oih |-> {Null, Some(<<1000, 1060>>)},
   liq |-> {Null, Some(<<Liq>>)},
   dpi |-> {Null, Some(Premium)},
   dfh |-> {Null, Some(<<2, -1>>)},
   dliq |-> {Null, Some(<<Liq>>)}]

\* symbol.replace(/USDT$/, '') (line 94) and the catalog's s.symbol (86-87)
BaseOf(symbol) ==
  CASE symbol = "ALICEUSDT" -> "ALICE"
    [] symbol = "LUMIAUSDT" -> "LUMIA"
    [] OTHER -> symbol
PerpOf(base) == IF base = "ALICE" THEN "ALICEUSD_PERP" ELSE "LUMIAUSD_PERP"

(***************************************************************************)
(* HISTORY STORE: keepHistory, hist (src/server.js 27-40)                  *)
(***************************************************************************)
Window == MaxMs \div cfg.unitMs

SelectSnaps(h, cutoff) == SelectSeq(h, LAMBDA x : x.fetchedAt >= cutoff)

\* keepHistory without its filter
keepHistoryNoPrune(st, sym, snap, clock) ==
  LET o == IF sym \in DOMAIN st THEN st[sym] ELSE [snapshot |-> snap, history |-> <<>>]
  IN (sym :> [snapshot |-> snap, history |-> Append(o.history, snap)]) @@ st

\* keepHistory putting the new snapshot in front
keepHistoryPrepend(st, sym, snap, clock) ==
  LET o == IF sym \in DOMAIN st THEN st[sym] ELSE [snapshot |-> snap, history |-> <<>>]
  IN (sym :> [snapshot |-> snap,
              history |-> SelectSnaps(<<snap>> \o o.history, clock - Window)]) @@ st

keepHistory(st, sym, snap, clock) ==
  LET o == IF sym \in DOMAIN st THEN st[sym] ELSE [snapshot |-> snap, history |-> <<>>]
      pushed == Append(o.history, snap)
      cutoff == clock - Window
  IN (sym :> [snapshot |-> snap, history |-> SelectSnaps(pushed, cutoff)]) @@ st

hist(st, sym) == IF sym \in DOMAIN st THEN st[sym].history ELSE <<>>

(***************************************************************************)
(* DELTA CALCULATOR: lastClose, closeAtOrBefore (src/server.js 47-56).     *)
(* Reading a field of a null row raises a TypeError: the ...Raises         *)
(* predicates say when.                                                    *)
(***************************************************************************)
lastClose(kl) == IF Len(kl) = 0 THEN Null ELSE Some(kl[Len(kl)][1])
lastCloseRaises(kl) == Len(kl) > 0 /\ kl[Len(kl)] = <<>>

RECURSIVE Candidate(_, _, _, _)
Candidate(kl, i, cand, minAgo) ==
  IF i > Len(kl) THEN cand
  ELSE IF kl[i][2] >= minAgo THEN Candidate(kl, i + 1, kl[i], minAgo)
  ELSE cand

RECURSIVE ScanRaises(_, _, _)
ScanRaises(kl, i, minAgo) ==
  IF i > Len(kl) THEN FALSE
  ELSE IF kl[i] = <<>> THEN TRUE
  ELSE IF kl[i][2] >= minAgo THEN ScanRaises(kl, i + 1, minAgo)
  ELSE FALSE

closeAtOrBefore(kl, minAgo) ==
  IF Len(kl) = 0 THEN Null ELSE Some(Candidate(kl, 1, kl[1], minAgo)[1])
closeAtOrBeforeRaises(kl, minAgo) == Len(kl) > 0 /\ ScanRaises(kl, 1, minAgo)

\* Array.prototype.slice(-n)
LastN(s, n) == IF Len(s) <= n THEN s ELSE SubSeq(s, Len(s) - n + 1, Len(s))

(***************************************************************************)
(* FETCHERS (src/server.js 103-166): what each returns for a payload.      *)
(***************************************************************************)
fetchSpot24h(p) ==
  IF p = Null THEN Null
  ELSE Some([price |-> Val(p).price, volume |-> Val(p).volume,
             takerBuyBase |-> Val(p).takerBuyBase, quoteVolume |-> Val(p).quoteVolume])
fetchKlines(p) == p
PremiumIndex(p) == p
FundingHist(p) == IF p = Null THEN <<>> ELSE Val(p)
\* an open-interest fetcher that loses its answer
fapiOpenInterestLost(p) == Null
fapiOpenInterest(p) == p
fapiOpenInterestHist(p) == IF p = Null THEN <<>> ELSE Val(p)
Liquidations(p) == IF p = Null THEN <<>> ELSE Val(p)

(***************************************************************************)
(* Tasks: a pollAll pass or an /api/now request, at its awaited requests.  *)
(***************************************************************************)
NoMarkets == [spot |-> FALSE, usdM |-> FALSE, coinM |-> Null]
\* the locals of buildSnapshot as declared at lines 211 and 221
NoLocals ==
  [spot24 |-> Null, kl15 |-> Null, kl4h |-> Null,
   fundingNow |-> Null, nextFundingTime |-> Null, markPrice |-> Null,
   fundHist |-> <<>>, oiNow |-> Null, oiHist |-> <<>>, liqs |-> <<>>]
IdleTask ==
  [kind |-> "idle", syms |-> <<>>, i |-> 0, out |-> <<>>, trace |-> <<>>,
   inflight |-> {}, age |-> 0, ticks |-> 0, awaits |-> 0,
   m |-> NoMarkets, loc |-> NoLocals]
NewTask(kind, syms) == [IdleTask EXCEPT !.kind = kind, !.syms = syms, !.i = 1]

\* what the model records of one item of a pass or request: the snapshot
\* cached when the item was reached, whether buildSnapshot was called,
\* whether its try block raised, and the requests that failed and succeeded
Item(cur, built) == [cur |-> cur, built |-> built, threw |-> FALSE, failed |-> {}, ok |-> {}]
Failed(r, p) == IF r \in {"spotInfo", "usdmInfo"} THEN p = FALSE ELSE p = Null

BootTask == 1
PollTasks == 1 .. (1 + MaxPolls)
NowTasks == (2 + MaxPolls) .. (1 + MaxPolls + MaxGets)
Tasks == PollTasks \cup NowTasks

NoResp == [kind |-> "none"]
NoHist == [symbol |-> "none"]

\* the shared state a run of JavaScript reads and writes
Globals ==
  [store |-> store, appended |-> appended, spotListed |-> spotListed,
   usdMListed |-> usdMListed, coinMPerp |-> coinMPerp,
   timerArmed |-> timerArmed, nextFire |-> nextFire, resp |-> NoResp]

\* the function issues the requests reqs and awaits them; age counts the
\* clock ticks of this await, ticks and awaits those of the whole task
Await(t, reqs, g) ==
  [t |-> [t EXCEPT !.inflight = reqs, !.age = 0, !.awaits = @ + 1], g |-> g]

(***************************************************************************)
(* SNAPSHOT BUILDER: buildSnapshot (src/server.js 206-300)                 *)
(***************************************************************************)
\* lines 249-251: a null candle row raises inside the try block
DeriveRaises(l) ==
  \/ l.kl15 # Null /\ lastCloseRaises(Val(l.kl15))
  \/ l.kl15 # Null /\ closeAtOrBeforeRaises(Val(l.kl15), 15)
  \/ l.kl4h # Null /\ closeAtOrBeforeRaises(Val(l.kl4h), 240)

\* lines 249-266
Derived(l) ==
  [priceNow |-> IF l.kl15 # Null THEN lastClose(Val(l.kl15))
                ELSE IF l.spot24 # Null THEN Some(Val(l.spot24).price)
                ELSE l.markPrice,
   price15mAgo |-> IF l.kl15 # Null THEN closeAtOrBefore(Val(l.kl15), 15) ELSE Null,
   price4hAgo |-> IF l.kl4h # Null THEN closeAtOrBefore(Val(l.kl4h), 240) ELSE Null,
   fundingNow |-> l.fundingNow,
   fundingPrev |-> IF Len(l.fundHist) >= 2 THEN Some(l.fundHist[Len(l.fundHist) - 1]) ELSE Null,
   oiNow |-> l.oiNow,
   oi4hAgo |-> IF Len(l.oiHist) >= 2 THEN Some(l.oiHist[Len(l.oiHist) - 1]) ELSE Null,
   netFlowBase |->
     IF l.spot24 = Null THEN Null
     ELSE LET v == Val(l.spot24)
              sellsBase == IF v.volume - v.takerBuyBase > 0 THEN v.volume - v.takerBuyBase ELSE 0
          IN Some(v.takerBuyBase - sellsBase)]

\* lines 267-292
Snapshot(symbol, m, l, clock) ==
  LET derived == Derived(l)
      sg == makeSignal(derived)
  IN [symbol |-> symbol,
      price |-> derived.priceNow,
      fundingRate |-> l.fundingNow,
      nextFundingTime |-> l.nextFundingTime,
      openInterest |-> l.oiNow,
      markPrice |-> l.markPrice,
      spot24 |-> IF l.spot24 = Null THEN Null
                 ELSE Some([volume |-> Val(l.spot24).volume,
                            takerBuyBase |-> Val(l.spot24).takerBuyBase,
                            quoteVolume |-> Val(l.spot24).quoteVolume]),
      deltas |-> [price15mPct |-> sg.dp15, oi4hPct |-> sg.doi4h,
                  netFlowBase |-> derived.netFlowBase],
      fundingHist |-> LastN(l.fundHist, 6),
      oiHist |-> LastN(l.oiHist, 6),
      liquidations |-> LastN(l.liqs, 10),
      signal |-> [value |-> sg.signal, score |-> sg.score, reasons |-> sg.reasons],
      markets |-> [spot |-> m.spot, usdM |-> m.usdM, coinM |-> m.coinM # Null],
      fetchedAt |-> clock]

\* lines 296-299: the catch block's record
Degraded(symbol, clock) == [symbol |-> symbol, error |-> "TypeError", fetchedAt |-> clock]

\* buildSnapshot without its catch block
CompletionUncaught(symbol, raises, snap, clock) ==
  IF raises THEN [raised |-> TRUE, value |-> Degraded(symbol, clock)]
  ELSE [raised |-> FALSE, value |-> snap]

\* the try/catch of lines 207 and 296: how an assembly ends for its caller
Completion(symbol, raises, snap, clock) ==
  IF raises THEN [raised |-> FALSE, value |-> Degraded(symbol, clock)]
  ELSE [raised |-> FALSE, value |-> snap]

\* setInterval's period in clock units (line 310)
Interval == cfg.pollMs \div cfg.unitMs

\* pollAll's return (line 306) and res.json (line 328); the awaited bootstrap
\* pass then arms the timer (lines 309-310)
Done(t, g) ==
  [t |-> IdleTask,
   g |-> [g EXCEPT !.resp = [kind |-> t.kind, syms |-> t.syms, aborted |-> FALSE,
                             out |-> t.out, trace |-> t.trace, at |-> now],
                   !.timerArmed = @ \/ t.kind = "boot",
                   !.nextFire = IF t.kind = "boot" THEN now + Interval ELSE @]]

\* neither pollAll nor the /api/now handler catches: a rejection ends them
Aborted(t, g) ==
  [t |-> IdleTask,
   g |-> [g EXCEPT !.resp = [kind |-> t.kind, syms |-> t.syms, aborted |-> TRUE,
                             out |-> t.out, trace |-> t.trace, at |-> now]]]

\* /api/now assembling whether or not a snapshot is cached
UseCachedNever(kind, cur) == FALSE

\* line 325-326: cur || await buildSnapshot(s); pollAll always assembles
UseCached(kind, cur) == kind = "now" /\ cur # Null

RECURSIVE NextItem(_, _)

\* a caller that gives up at the first degraded record
ResumeUntilError(t, g, c) ==
  IF c.raised \/ "error" \in DOMAIN c.value THEN Aborted(t, g)
  ELSE NextItem([t EXCEPT !.out = Append(@, c.value), !.i = @ + 1, !.inflight = {},
                          !.age = 0, !.m = NoMarkets, !.loc = NoLocals], g)

\* the caller resumes with buildSnapshot's result (lines 305 and 326)
Resume(t, g, c) ==
  IF c.raised THEN Aborted(t, g)
  ELSE NextItem([t EXCEPT !.out = Append(@, c.value), !.i = @ + 1, !.inflight = {},
                          !.age = 0, !.m = NoMarkets, !.loc = NoLocals], g)

\* an assembly that stores whatever record it returns
DeriveStoreAlways(t, g) ==
  LET symbol == t.syms[t.i]
      raises == DeriveRaises(t.loc)
      c == Completion(symbol, raises, Snapshot(symbol, t.m, t.loc, now), now)
      g1 == [g EXCEPT !.store = keepHistory(@, symbol, c.value, now),
                      !.appended = (symbol :> Append(IF symbol \in DOMAIN @ THEN @[symbol] ELSE <<>>,
                                                    [snap |-> c.value, at |-> now])) @@ @]
  IN Resume([t EXCEPT !.trace[t.i].threw = raises], g1, c)

\* lines 248-299
Derive(t, g) ==
  LET symbol == t.syms[t.i]
      raises == DeriveRaises(t.loc)
      snap == Snapshot(symbol, t.m, t.loc, now)
      g1 == IF raises THEN g
            ELSE [g EXCEPT !.store = keepHistory(@, symbol, snap, now),
                           !.appended = (symbol :> Append(IF symbol \in DOMAIN @ THEN @[symbol] ELSE <<>>,
                                                         [snap |-> snap, at |-> now])) @@ @]
  IN Resume([t EXCEPT !.trace[t.i].threw = raises], g1, Completion(symbol, raises, snap, now))

\* a COIN-M block that ignores the USD-M flag
InverseAlways(t, g) ==
  IF t.m.coinM # Null THEN Await(t, {"dpi"}, g) ELSE Derive(t, g)

\* line 236
Inverse(t, g) ==
  IF ~t.m.usdM /\ t.m.coinM # Null THEN Await(t, {"dpi"}, g) ELSE Derive(t, g)

\* a USD-M block that issues its five requests together
FuturesFanOut(t, g) ==
  IF t.m.usdM THEN Await(t, {"pi", "fh", "oi", "oih", "liq"}, g) ELSE Inverse(t, g)

\* line 222
Futures(t, g) ==
  IF t.m.usdM THEN Await(t, {"pi"}, g) ELSE Inverse(t, g)

\* lines 94-99 and 208-218: the three metric requests of the spot venue are
\* issued together and awaited jointly (Promise.all)
Resolved(t, g) ==
  LET symbol == t.syms[t.i]
      base == BaseOf(symbol)
      m == [spot |-> IF symbol \in DOMAIN g.spotListed THEN g.spotListed[symbol] ELSE FALSE,
            usdM |-> IF symbol \in DOMAIN g.usdMListed THEN g.usdMListed[symbol] ELSE FALSE,
            coinM |-> IF base \in DOMAIN g.coinMPerp THEN Some(g.coinMPerp[base]) ELSE Null]
      t1 == [t EXCEPT !.m = m]
  IN IF m.spot THEN Await(t1, {"spot24", "kl15", "kl4h"}, g) ELSE Futures(t1, g)

\* a resolution that scans the catalog whatever the registry holds
DetectCoinMAlways(t, g) == Await(t, {"coinmInfo"}, g)

\* line 81
DetectCoinM(t, g) ==
  IF DOMAIN g.coinMPerp = {} THEN Await(t, {"coinmInfo"}, g) ELSE Resolved(t, g)

\* line 75
DetectUsdM(t, g) ==
  IF t.syms[t.i] \notin DOMAIN g.usdMListed THEN Await(t, {"usdmInfo"}, g)
  ELSE DetectCoinM(t, g)

\* line 69
detectMarkets(t, g) ==
  IF t.syms[t.i] \notin DOMAIN g.spotListed THEN Await(t, {"spotInfo"}, g)
  ELSE DetectUsdM(t, g)

\* the loops of pollAll (line 305) and of /api/now (lines 324-327)
NextItem(t, g) ==
  IF t.i > Len(t.syms) THEN Done(t, g)
  ELSE LET symbol == t.syms[t.i]
           cur == IF symbol \in DOMAIN g.store THEN Some(g.store[symbol].snapshot) ELSE Null
       IN IF UseCached(t.kind, cur)
          THEN NextItem([t EXCEPT !.out = Append(@, Val(cur)), !.i = @ + 1,
                                  !.trace = Append(@, Item(cur, FALSE))], g)
          ELSE detectMarkets([t EXCEPT !.trace = Append(@, Item(cur, TRUE))], g)

(***************************************************************************)
(* A response arrives: the awaiting function resumes (one case per await). *)
(***************************************************************************)
Resumed(t, g, r, p) ==
  LET symbol == t.syms[t.i]
      t0 == [t EXCEPT !.inflight = @ \ {r},
                      !.trace[t.i] = IF Failed(r, p) THEN [@ EXCEPT !.failed = @ \cup {r}]
                                     ELSE [@ EXCEPT !.ok = @ \cup {r}]]
  IN CASE r = "spotInfo" -> DetectUsdM(t0, [g EXCEPT !.spotListed = (symbol :> p) @@ @])
       [] r = "usdmInfo" -> DetectCoinM(t0, [g EXCEPT !.usdMListed = (symbol :> p) @@ @])
       [] r = "coinmInfo" ->
            Resolved(t0, IF p = Null THEN g
                         ELSE [g EXCEPT !.coinMPerp = [b \in Val(p) |-> PerpOf(b)] @@ @])
       [] r \in {"spot24", "kl15", "kl4h"} ->
            LET t1 == [t0 EXCEPT !.loc = CASE r = "spot24" -> [@ EXCEPT !.spot24 = fetchSpot24h(p)]
                                          [] r = "kl15" -> [@ EXCEPT !.kl15 = fetchKlines(p)]
                                          [] r = "kl4h" -> [@ EXCEPT !.kl4h = fetchKlines(p)]]
            IN IF t1.inflight = {} THEN Futures(t1, g) ELSE [t |-> t1, g |-> g]
       [] r \in {"pi", "dpi"} ->
            LET pi == PremiumIndex(p)
                t1 == IF pi = Null THEN t0
                      ELSE [t0 EXCEPT !.loc = [@ EXCEPT !.fundingNow = Some(Val(pi).lastFundingRate),
                                                        !.nextFundingTime = Some(Val(pi).nextFundingTime),
                                                        !.markPrice = Some(Val(pi).markPrice)]]
            IN Await(t1, IF r = "pi" THEN {"fh"} ELSE {"dfh"}, g)
       [] r \in {"fh", "dfh"} ->
            Await([t0 EXCEPT !.loc = [@ EXCEPT !.fundHist = FundingHist(p)]],
                  IF r = "fh" THEN {"oi"} ELSE {"dliq"}, g)
       [] r = "oi" -> Await([t0 EXCEPT !.loc = [@ EXCEPT !.oiNow = fapiOpenInterest(p)]], {"oih"}, g)
       [] r = "oih" -> Await([t0 EXCEPT !.loc = [@ EXCEPT !.oiHist = fapiOpenInterestHist(p)]], {"liq"}, g)
       [] r = "liq" -> Inverse([t0 EXCEPT !.loc = [@ EXCEPT !.liqs = Liquidations(p)]], g)
       [] r = "dliq" -> Derive([t0 EXCEPT !.loc = [@ EXCEPT !.liqs = Liquidations(p)]], g)

\* the effect of one run of JavaScript on the state
Commit(tid, res) ==
  /\ task' = [task EXCEPT ![tid] = res.t]
  /\ store' = res.g.store
  /\ appended' = res.g.appended
  /\ spotListed' = res.g.spotListed
  /\ usdMListed' = res.g.usdMListed
  /\ coinMPerp' = res.g.coinMPerp
  /\ timerArmed' = res.g.timerArmed
  /\ nextFire' = res.g.nextFire
  /\ resp' = res.g.resp
  /\ hresp' = NoHist
  /\ UNCHANGED <<now, cfg, bundle, sig>>

Respond(tid, r) ==
  /\ r \in task[tid].inflight
  /\ \E p \in cfg.env[r] : Commit(tid, Resumed(task[tid], Globals, r, p))
  /\ UNCHANGED <<polls, gets>>

\* setInterval's callback (line 310) is due: it calls pollAll, whatever the
\* earlier passes do, and the timer is set for the next period
TimerDue == timerArmed /\ polls < MaxPolls /\ now >= nextFire

TimerFire ==
  /\ TimerDue
  /\ polls' = polls + 1
  /\ Commit(2 + polls, NextItem(NewTask("poll", cfg.tracked),
                                [Globals EXCEPT !.nextFire = @ + Interval]))
  /\ UNCHANGED gets

RequestLists == {cfg.tracked, <<"LUMIAUSDT", "ALICEUSDT">>}
\* GET /api/now (lines 319-329), from a client that sends one request at a time
GetNow(symbols) ==
  /\ gets < MaxGets
  /\ \A tid \in NowTasks : task[tid].kind = "idle"
  /\ gets' = gets + 1
  /\ Commit(2 + MaxPolls + gets, NextItem(NewTask("now", symbols), Globals))
  /\ UNCHANGED polls

\* a history endpoint that returns every snapshot ever appended
GetHistoryUnpruned(symbol) ==
  /\ hresp' = [symbol |-> symbol,
               history |-> IF symbol \in DOMAIN appended
                           THEN [k \in 1 .. Len(appended[symbol]) |-> appended[symbol][k].snap]
                           ELSE <<>>,
               fetchedAt |-> now]
  /\ resp' = NoResp
  /\ UNCHANGED <<now, cfg, store, appended, spotListed, usdMListed, coinMPerp,
                 task, timerArmed, nextFire, polls, gets, bundle, sig>>

\* GET /api/history (lines 331-335)
GetHistory(symbol) ==
  /\ hresp' = [symbol |-> symbol, history |-> hist(store, symbol), fetchedAt |-> now]
  /\ resp' = NoResp
  /\ UNCHANGED <<now, cfg, store, appended, spotListed, usdMListed, coinMPerp,
                 task, timerArmed, nextFire, polls, gets, bundle, sig>>

\* The clock advances by one unit.  A request is answered or fails within
\* its timeout (lines 22-24), so an await sees less than TimeoutMs pass and
\* a task that has begun n awaits less than n * TimeoutMs.  An await begins
\* anywhere between two clock readings; with cfg.aligned the tasks begin
\* when the clock changes (the timer's passes, the timer being set in step
\* with the clock), so that after k readings at least k units have passed.
\* A due timer callback runs before the clock is read again.
MayWait(t) ==
  \/ t.kind = "idle"
  \/ /\ t.age * cfg.unitMs < TimeoutMs
     /\ (t.ticks + (IF cfg.aligned THEN 1 ELSE 0)) * cfg.unitMs < t.awaits * TimeoutMs

Tick ==
  /\ now < cfg.horizon
  /\ ~TimerDue
  /\ \A tid \in Tasks : MayWait(task[tid])
  /\ now' = now + 1
  /\ task' = [tid \in Tasks |->
                IF task[tid].kind = "idle" THEN task[tid]
                ELSE [task[tid] EXCEPT !.age = @ + 1, !.ticks = @ + 1]]
  /\ resp' = NoResp
  /\ hresp' = NoHist
  /\ UNCHANGED <<cfg, store, appended, spotListed, usdMListed, coinMPerp,
                 timerArmed, nextFire, polls, gets, bundle, sig>>

(***************************************************************************)
(* The server: the state after the module has loaded (bootstrap has called *)
(* pollAll, which awaits the first request of the first instrument).       *)
(***************************************************************************)
NoBundle ==
  [price15mAgo |-> Null, priceNow |-> Null, oi4hAgo |-> Null, oiNow |-> Null,
   fundingPrev |-> Null, fundingNow |-> Null, netFlowBase |-> Null]

\* no bundle has been evaluated
NoSignal == [signal |-> "none", score |-> 0, reasons |-> <<>>, dp15 |-> Null, doi4h |-> Null]

\* an upstream with the spot venue only, whose 15 m candles may be malformed
\* and whose COIN-M catalog is down
HistEnv ==
  [FullEnv EXCEPT !.spotInfo = {TRUE}, !.usdmInfo = {FALSE}, !.coinmInfo = {Null},
                  !.spot24 = {Some(Ticker)}, !.kl15 = {Some(K15), Some(KBad)},
                  !.kl4h = {Some(K4h)}]

Loaded(c) ==
  /\ now = 0
  /\ cfg = c
  /\ store = <<>>
  /\ appended = <<>>
  /\ spotListed = <<>>
  /\ usdMListed = <<>>
  /\ coinMPerp = <<>>
  /\ timerArmed = FALSE
  /\ nextFire = 0
  /\ polls = 0
  /\ gets = 0
  /\ resp = NoResp
  /\ hresp = NoHist
  /\ bundle = NoBundle
  /\ sig = NoSignal
  /\ task = [tid \in Tasks |->
               IF tid = BootTask
               THEN [NewTask("boot", c.tracked) EXCEPT
                       !.trace = <<Item(Null, TRUE)>>,
                       !.inflight = {"spotInfo"}, !.awaits = 1]
               ELSE IdleTask]

\* one instrument polled once per retention window (SYMBOLS=ALICEUSDT
\* POLL_SECONDS=86400), the clock in units of the window
Init ==
  Loaded([unitMs |-> CoarseUnitMs, pollMs |-> CoarseUnitMs, tracked |-> <<"ALICEUSDT">>,
          env |-> HistEnv, horizon |-> MaxTime, aligned |-> FALSE])

Next ==
  \/ \E tid \in Tasks : \E r \in task[tid].inflight : Respond(tid, r)
  \/ TimerFire
  \/ GetNow(cfg.tracked)
  \/ GetHistory("ALICEUSDT")
  \/ Tick

Spec == Init /\ [][Next]_vars

(***************************************************************************)
(* The first poll period of a server tracking one instrument, with         *)
(* /api/now requests racing the bootstrap pass.                            *)
(***************************************************************************)
\* an upstream whose spot probe may fail, whose COIN-M catalog may be down
\* and whose 15 m candles may be malformed; no instrument is on USD-M
RaceEnv ==
  [FullEnv EXCEPT !.usdmInfo = {FALSE}, !.coinmInfo = {Null, Some({"ALICE"})},
                  !.spot24 = {Some(Ticker)}, !.kl15 = {Some(K15), Some(KBad)},
                  !.kl4h = {Some(K4h)}, !.dpi = {Some(Premium)},
                  !.dfh = {Some(<<2, -1>>)}, !.dliq = {Some(<<Liq>>)}]

InitRace ==
  Loaded([unitMs |-> CoarseUnitMs, pollMs |-> POLL_SECONDS * 1000, tracked |-> <<"ALICEUSDT">>,
          env |-> RaceEnv, horizon |-> 0, aligned |-> FALSE])

NextRace ==
  \/ \E tid \in Tasks : \E r \in task[tid].inflight : Respond(tid, r)
  \/ \E symbols \in RequestLists : GetNow(symbols)

SpecRace == InitRace /\ [][NextRace]_vars

(***************************************************************************)
(* History store                                                           *)
(***************************************************************************)
LastAppendAt(symbol) == appended[symbol][Len(appended[symbol])].at
Snaps(log) == [k \in 1 .. Len(log) |-> log[k].snap]

\* C1: after any sequence of keepHistory calls for an instrument, its history
\* holds exactly the appended snapshots, in order, whose fetchedAt is at least
\* the clock reading of the most recent call minus the 24 h window: nothing
\* older is retained and nothing newer is lost.
C1_RetainedWithinWindowOfLastAppend ==
  \A symbol \in DOMAIN store :
    /\ symbol \in DOMAIN appended
    /\ \A k \in 1 .. Len(store[symbol].history) :
         store[symbol].history[k].fetchedAt >= LastAppendAt(symbol) - Window
    /\ store[symbol].history =
         SelectSnaps(Snaps(appended[symbol]), LastAppendAt(symbol) - Window)

\* an append has removed an older entry and kept a newer one
C1_Witness ==
  \E symbol \in DOMAIN store :
    /\ Len(appended[symbol]) > Len(store[symbol].history)
    /\ Len(store[symbol].history) >= 2

\* C2 as stated: at every moment every element of every history has
\* fetchedAt >= now - window.
C2_AlwaysWithinWindowOfNow ==
  \A symbol \in DOMAIN store :
    \A k \in 1 .. Len(store[symbol].history) :
      store[symbol].history[k].fetchedAt >= now - Window

\* C2 amended: /api/history returns the buffer as the last append left it;
\* every element it returns has fetchedAt >= (clock reading of the
\* instrument's most recent append) - window.
C2_ReadWithinWindowOfLastAppend ==
  hresp # NoHist =>
    /\ hresp.history = hist(store, hresp.symbol)
    /\ \A k \in 1 .. Len(hresp.history) :
         hresp.history[k].fetchedAt >= LastAppendAt(hresp.symbol) - Window

\* /api/history has returned an element older than now - window
C2_Witness ==
  /\ hresp # NoHist
  /\ \E k \in 1 .. Len(hresp.history) :
       hresp.history[k].fetchedAt < hresp.fetchedAt - Window

(***************************************************************************)
(* /api/now                                                                *)
(***************************************************************************)
\* the items of the /api/now requests in progress and of the response sent
NowRuns ==
  {[out |-> task[tid].out, trace |-> task[tid].trace] : tid \in {x \in NowTasks : task[x].kind = "now"}}
  \cup (IF resp.kind = "now" THEN {[out |-> resp.out, trace |-> resp.trace]} ELSE {})

\* C3: for each requested instrument /api/now calls buildSnapshot exactly
\* when no snapshot is cached for it, and otherwise puts the cached snapshot
\* in its response without assembling.
C3_BuildsExactlyOnCacheMiss ==
  \A run \in NowRuns :
    \A k \in 1 .. Len(run.trace) :
      /\ run.trace[k].built <=> run.trace[k].cur = Null
      /\ (run.trace[k].cur # Null /\ k <= Len(run.out)) => run.out[k] = Val(run.trace[k].cur)
      /\ ~run.trace[k].built => run.trace[k].failed \cup run.trace[k].ok = {}

\* one response holds an instrument assembled on demand and a cached one
C3_Witness ==
  /\ resp.kind = "now"
  /\ \E j, k \in 1 .. Len(resp.trace) :
       /\ resp.trace[j].built
       /\ ~resp.trace[k].built
       /\ resp.out[k] = Val(resp.trace[k].cur)

(***************************************************************************)
(* One assembly against an upstream that may answer each request in any    *)
(* way: the bootstrap pass of a server tracking one instrument.            *)
(***************************************************************************)
InitBuild ==
  Loaded([unitMs |-> CoarseUnitMs, pollMs |-> POLL_SECONDS * 1000, tracked |-> <<"ALICEUSDT">>,
          env |-> FullEnv, horizon |-> 0, aligned |-> FALSE])

NextBuild == \E tid \in Tasks : \E r \in task[tid].inflight : Respond(tid, r)

SpecBuild == InitBuild /\ [][NextBuild]_vars

\* the passes and requests in progress and the one that has just ended
Runs ==
  {[syms |-> task[tid].syms, out |-> task[tid].out, trace |-> task[tid].trace, aborted |-> FALSE] :
     tid \in {x \in Tasks : task[x].kind # "idle"}}
  \cup (IF resp.kind = "none" THEN {}
        ELSE {[syms |-> resp.syms, out |-> resp.out, trace |-> resp.trace, aborted |-> resp.aborted]})

\* the items of Runs that buildSnapshot has returned a record for
Built ==
  UNION {{[symbol |-> run.syms[k], rec |-> run.out[k], item |-> run.trace[k]] :
            k \in {j \in 1 .. Len(run.out) : run.trace[j].built}} : run \in Runs}

IsDegraded(rec) == "error" \in DOMAIN rec

\* C4: buildSnapshot never raises to its caller, whichever probes and metric
\* requests fail: no pass or request is ended by a rejection; the record it
\* returns is a full snapshot unless its try block raised, and then it holds
\* exactly the instrument id, the fetch timestamp and the error descriptor.
C4_BuildSnapshotNeverRaises ==
  /\ \A run \in Runs : ~run.aborted
  /\ \A b \in Built :
       /\ b.item.threw <=> IsDegraded(b.rec)
       /\ b.item.threw =>
            /\ DOMAIN b.rec = {"symbol", "error", "fetchedAt"}
            /\ b.rec.symbol = b.symbol
            /\ b.rec.fetchedAt <= now
       /\ ~b.item.threw =>
            /\ {"symbol", "signal", "markets", "fetchedAt"} \subseteq DOMAIN b.rec
            /\ b.rec.symbol = b.symbol

\* a failure escaped the pipeline of an assembly in which a request had
\* failed too, and the pass ended with the degraded record
C4_Witness ==
  /\ resp.kind = "boot"
  /\ ~resp.aborted
  /\ \E k \in 1 .. Len(resp.out) :
       /\ resp.trace[k].threw
       /\ resp.trace[k].failed # {}
       /\ IsDegraded(resp.out[k])

FundingReasons == {"Funding flip", "Crowded longs", "Crowded shorts"}
Range(seq) == {seq[k] : k \in 1 .. Len(seq)}

OwnFields(rec, item) ==
  /\ "spot24" \in item.failed => rec.spot24 = Null /\ rec.deltas.netFlowBase = Null
  /\ "spot24" \in item.ok => rec.spot24 # Null /\ rec.deltas.netFlowBase # Null
  /\ "kl15" \in item.failed => rec.deltas.price15mPct = Null
  /\ item.failed \cap {"pi", "dpi"} # {} =>
       rec.fundingRate = Null /\ rec.nextFundingTime = Null /\ rec.markPrice = Null
  /\ item.ok \cap {"pi", "dpi"} # {} =>
       rec.fundingRate # Null /\ rec.nextFundingTime # Null /\ rec.markPrice # Null
  /\ item.failed \cap {"fh", "dfh"} # {} => rec.fundingHist = <<>>
  /\ item.ok \cap {"fh", "dfh"} # {} => rec.fundingHist # <<>>
  /\ "oi" \in item.failed => rec.openInterest = Null
  /\ "oi" \in item.ok => rec.openInterest # Null
  /\ "oih" \in item.failed => rec.oiHist = <<>> /\ rec.deltas.oi4hPct = Null
  /\ "oih" \in item.ok => rec.oiHist # <<>>
  /\ ("oi" \in item.ok /\ "oih" \in item.ok) => rec.deltas.oi4hPct # Null
  /\ item.failed \cap {"liq", "dliq"} # {} => rec.liquidations = <<>>
  /\ item.ok \cap {"liq", "dliq"} # {} => rec.liquidations # <<>>

\* the signal of a record without a funding rate: the price and the
\* open-interest rule applied to the record's own deltas
SignalFromDeltas(rec) ==
  LET price == PriceRule(rec.deltas.price15mPct)
      oi == OiRule(rec.deltas.oi4hPct, rec.deltas.price15mPct)
      flow == FlowRule(rec.deltas.netFlowBase)
  IN [value |-> Classify(price.score + oi.score), score |-> price.score + oi.score,
      reasons |-> price.reasons \o oi.reasons \o flow.reasons]

PassEnv ==
  [FullEnv EXCEPT !.coinmInfo = {Null}, !.kl15 = {Null, Some(K15), Some(KBad)},
                  !.kl4h = {Some(K4h)}, !.fh = {Some(<<2, -1>>)},
                  !.oih = {Some(<<1000, 1060>>)}, !.liq = {Some(<<Liq>>)}]

\* the bootstrap pass over the default instruments
InitPass ==
  Loaded([unitMs |-> CoarseUnitMs, pollMs |-> POLL_SECONDS * 1000, tracked |-> SYMBOLS,
          env |-> PassEnv, horizon |-> 0, aligned |-> FALSE])

NextPass == \E tid \in Tasks : \E r \in task[tid].inflight : Respond(tid, r)

\* Every external call eventually returns or fails: weak fairness of
\* NextPass.  A response step is enabled exactly when some request is in
\* flight and it always changes the state, so that WF_vars(NextPass) is
\* written with Awaiting for ENABLED <<NextPass>>_vars.
Awaiting == \E tid \in Tasks : task[tid].inflight # {}
Answered == []<>(~Awaiting) \/ []<><<NextPass>>_vars

SpecPass == InitPass /\ [][NextPass]_vars /\ Answered

PassRunning == \E tid \in PollTasks : task[tid].kind \in {"boot", "poll"}
PassEnded == resp.kind \in {"boot", "poll"}
PassComplete ==
  /\ PassEnded
  /\ ~resp.aborted
  /\ Len(resp.out) = Len(cfg.tracked)
  /\ \A k \in 1 .. Len(cfg.tracked) : resp.out[k].symbol = cfg.tracked[k]

\* a pass in progress has visited a prefix of the tracked instruments, each
\* once and in order, and holds one record for each
PassInOrder ==
  \A tid \in PollTasks :
    task[tid].kind \in {"boot", "poll"} =>
      /\ task[tid].syms = cfg.tracked
      /\ Len(task[tid].out) = task[tid].i - 1
      /\ Len(task[tid].trace) = task[tid].i
      /\ \A k \in 1 .. Len(task[tid].out) : task[tid].out[k].symbol = cfg.tracked[k]
      /\ \A k \in 1 .. Len(task[tid].trace) : task[tid].trace[k].built

\* C6: every poll pass that starts eventually completes, given that every
\* request is eventually answered or fails; it yields exactly one record per
\* tracked instrument in configured order, and no failed request or degraded
\* instrument ends it early.
C6_PassCompletesInOrder ==
  /\ [](PassInOrder /\ (PassEnded => PassComplete))
  /\ (PassRunning ~> PassComplete)

\* a pass whose first instrument gave the degraded record and whose second
\* instrument was assembled although one of its requests failed
C6_Witness ==
  /\ PassComplete
  /\ Len(resp.out) = 2
  /\ IsDegraded(resp.out[1])
  /\ resp.trace[1].threw
  /\ ~IsDegraded(resp.out[2])
  /\ resp.trace[2].failed # {}

(***************************************************************************)
(* Poll timer                                                              *)
(***************************************************************************)
\* the clock readings of a timed run
MaxTimed == 8

\* an upstream with the spot venue only and well-formed answers
TimedEnv ==
  [FullEnv EXCEPT !.spotInfo = {TRUE}, !.usdmInfo = {FALSE}, !.coinmInfo = {Null},
                  !.spot24 = {Some(Ticker)}, !.kl15 = {Some(K15)}, !.kl4h = {Some(K4h)}]

\* one instrument polled every 10 s (SYMBOLS=ALICEUSDT POLL_SECONDS=10), the
\* clock in units of half the request timeout
InitTimed ==
  Loaded([unitMs |-> FineUnitMs, pollMs |-> 2 * FineUnitMs, tracked |-> <<"ALICEUSDT">>,
          env |-> TimedEnv, horizon |-> MaxTimed, aligned |-> TRUE])

NextTimed ==
  \/ \E tid \in Tasks : \E r \in task[tid].inflight : Respond(tid, r)
  \/ TimerFire
  \/ Tick

SpecTimed == InitTimed /\ [][NextTimed]_vars

\* C7: poll ticks do not overlap: no poll pass starts while an earlier one
\* is still in progress.
C7_PollPassesNeverOverlap ==
  Cardinality({tid \in PollTasks : task[tid].kind \in {"boot", "poll"}}) <= 1

(***************************************************************************)
(* Signal engine                                                           *)
(***************************************************************************)
\* 0.0002 and -0.0001 are 2 and -1 in units of 1e-4
ExampleBundle ==
  [price15mAgo |-> Some(100), priceNow |-> Some(104), oi4hAgo |-> Some(1000),
   oiNow |-> Some(1060), fundingPrev |-> Some(2), fundingNow |-> Some(-1),
   netFlowBase |-> Null]

\* derived-metrics bundles around every threshold of the engine
Bundles ==
  [price15mAgo : {Null, Some(0), Some(-100), Some(100), Some(100000)},
   priceNow : {Null, Some(97), Some(100), Some(103), Some(104),
               Some(97000), Some(97001), Some(102999), Some(103000)},
   oi4hAgo : {Null, Some(1000)},
   oiNow : {Null, Some(940), Some(950), Some(951), Some(1000), Some(1049), Some(1050), Some(1060)},
   fundingPrev : {Null, Some(-2), Some(0), Some(2)},
   fundingNow : {Null, Some(-16), Some(-15), Some(-1), Some(0), Some(2), Some(15), Some(16)},
   netFlowBase : {Null, Some(-2), Some(2)}]

InitSignal ==
  /\ now = 0
  /\ cfg = [unitMs |-> CoarseUnitMs, pollMs |-> POLL_SECONDS * 1000, tracked |-> SYMBOLS,
            env |-> FullEnv, horizon |-> 0, aligned |-> FALSE]
  /\ store = <<>>
  /\ appended = <<>>
  /\ spotListed = <<>>
  /\ usdMListed = <<>>
  /\ coinMPerp = <<>>
  /\ timerArmed = FALSE
  /\ nextFire = 0
  /\ polls = 0
  /\ gets = 0
  /\ resp = NoResp
  /\ hresp = NoHist
  /\ task = [tid \in Tasks |-> IdleTask]
  /\ bundle \in Bundles
  /\ sig = NoSignal

\* line 267: const sig = makeSignal(derived)
Eval ==
  /\ sig = NoSignal
  /\ sig' = makeSignal(bundle)
  /\ UNCHANGED <<now, cfg, store, appended, spotListed, usdMListed, coinMPerp,
                 task, timerArmed, nextFire, polls, gets, resp, hresp, bundle>>

SpecSignal == InitSignal /\ [][Eval]_vars

Evaluated == sig # NoSignal

\* C8: for every bundle the classification is BUY iff score >= 3, SELL iff
\* score <= -2 and NEUTRAL otherwise.
C8_ClassificationThresholds ==
  Evaluated =>
    /\ sig.signal \in {"BUY", "SELL", "NEUTRAL"}
    /\ sig.signal = "BUY" <=> sig.score >= 3
    /\ sig.signal = "SELL" <=> sig.score <= -2
    /\ sig.signal = "NEUTRAL" <=> (sig.score > -2 /\ sig.score < 3)

\* a bundle scoring exactly 3 is a BUY
C8_Witness == Evaluated /\ sig.score = 3 /\ sig.signal = "BUY"

\* the deltas of the bundle against a positive base, times the base:
\* delta >= k % is Times100 >= k * base
PriceKnown ==
  bundle.price15mAgo # Null /\ bundle.priceNow # Null /\ Val(bundle.price15mAgo) > 0
OiKnown == bundle.oi4hAgo # Null /\ bundle.oiNow # Null /\ Val(bundle.oi4hAgo) > 0
PriceTimes100 == (Val(bundle.priceNow) - Val(bundle.price15mAgo)) * 100
PriceBase == Val(bundle.price15mAgo)
OiTimes100 == (Val(bundle.oiNow) - Val(bundle.oi4hAgo)) * 100
OiBase == Val(bundle.oi4hAgo)
PriceIsUp == PriceKnown /\ PriceTimes100 > 0

\* what the rules other than the named one add to the score
FundingScore == FlipRule(bundle.fundingPrev, bundle.fundingNow).score + CrowdRule(bundle.fundingNow).score
OiScore == sig.score - FundingScore - PriceRule(sig.dp15).score
PriceScore == sig.score - FundingScore - OiRule(sig.doi4h, sig.dp15).score

\* C9: an open-interest delta >= +5.0% adds 2 when the price delta is
\* positive and 1 otherwise (unknown included); a delta <= -5.0% adds 1 only
\* when the price delta is positive; the rules add up, so the bundle
\* 100 -> 104, 1000 -> 1060, +0.0002 -> -0.0001 scores 5 and is a BUY.
C9_OpenInterestRule ==
  Evaluated =>
    /\ (OiKnown /\ OiTimes100 >= 5 * OiBase) => OiScore = IF PriceIsUp THEN 2 ELSE 1
    /\ (OiKnown /\ OiTimes100 <= (-5) * OiBase) => OiScore = IF PriceIsUp THEN 1 ELSE 0
    /\ (OiKnown /\ OiTimes100 > (-5) * OiBase /\ OiTimes100 < 5 * OiBase) => OiScore = 0
    /\ ~OiKnown => OiScore = 0
    /\ bundle = ExampleBundle => sig.score = 5 /\ sig.signal = "BUY"

\* the example bundle has been evaluated: 2 + 2 + 1
C9_Witness ==
  /\ Evaluated
  /\ bundle = ExampleBundle
  /\ PriceRule(sig.dp15).score = 2
  /\ OiScore = 2
  /\ FundingScore = 1
  /\ sig.score = 5
  /\ sig.signal = "BUY"

\* C10: a 15-minute price delta of exactly +3.0% adds 2 and one of exactly
\* -3.0% subtracts 2; a delta strictly between them (+2.999%) adds nothing.
C10_PriceThresholdInclusive ==
  (Evaluated /\ PriceKnown) =>
    /\ PriceTimes100 = 3 * PriceBase => PriceScore = 2
    /\ PriceTimes100 = (-3) * PriceBase => PriceScore = -2
    /\ (PriceTimes100 > (-3) * PriceBase /\ PriceTimes100 < 3 * PriceBase) => PriceScore = 0
    /\ PriceTimes100 > 3 * PriceBase => PriceScore = 2
    /\ PriceTimes100 < (-3) * PriceBase => PriceScore = -2

\* a delta of exactly +3.0% is scored 2 on its own
C10_Witness ==
  /\ Evaluated
  /\ bundle.price15mAgo = Some(100)
  /\ bundle.priceNow = Some(103)
  /\ bundle.oiNow = Null
  /\ bundle.fundingNow = Null
  /\ PriceTimes100 = 3 * PriceBase
  /\ PriceScore = 2
  /\ sig.score = 2

\* what the funding-flip rule adds to the score
FlipScore ==
  sig.score - PriceRule(sig.dp15).score - OiRule(sig.doi4h, sig.dp15).score
            - CrowdRule(bundle.fundingNow).score
OppositeSigns ==
  /\ bundle.fundingPrev # Null
  /\ bundle.fundingNow # Null
  /\ \/ Val(bundle.fundingPrev) > 0 /\ Val(bundle.fundingNow) < 0
     \/ Val(bundle.fundingPrev) < 0 /\ Val(bundle.fundingNow) > 0

\* C11: the funding-flip rule adds exactly 1 if and only if the previous and
\* the current funding rate are both known and of strictly opposite signs;
\* it adds nothing when they have the same sign, when either is zero or when
\* either is unknown.
C11_FlipOnlyOnOppositeSigns ==
  Evaluated =>
    /\ FlipScore \in {0, 1}
    /\ FlipScore = 1 <=> OppositeSigns

\* r is pct(a, b): null exactly for a null operand or a zero base, and
\* otherwise (b - a) / a * 100, as the fraction of denominator |a|
PctAgrees(a, b, r) ==
  IF a = Null \/ b = Null \/ a = Some(0) THEN r = Null
  ELSE /\ r # Null
       /\ r[2] > 0
       /\ r[2] \in {Val(a), 0 - Val(a)}
       /\ r[1] = (Val(b) - Val(a)) * 100 * (Val(a) \div r[2])

\* C12: pct(a, b) is null if and only if a is null, b is null or a = 0, and
\* (b - a) / a * 100 for every other input.
C12_PctNullOrQuotient ==
  Evaluated =>
    /\ PctAgrees(bundle.price15mAgo, bundle.priceNow, sig.dp15)
    /\ PctAgrees(bundle.oi4hAgo, bundle.oiNow, sig.doi4h)

\* a zero base gives null next to a delta that is known
C12_Witness ==
  /\ Evaluated
  /\ bundle.price15mAgo = Some(0)
  /\ bundle.priceNow = Some(100)
  /\ sig.dp15 = Null
  /\ sig.doi4h = <<6000, 1000>>

(***************************************************************************)
(* Concurrent assemblies                                                   *)
(***************************************************************************)
FuturesRequests == {"pi", "fh", "oi", "oih", "liq", "dpi", "dfh", "dliq"}

\* task tid is assembling symbol
Assembling(tid, symbol) ==
  /\ task[tid].kind # "idle"
  /\ task[tid].i <= Len(task[tid].syms)
  /\ task[tid].syms[task[tid].i] = symbol
  /\ task[tid].trace[task[tid].i].built

\* the assembly of task tid is past its candles, which are well-formed: it
\* appends to the history as soon as its futures requests are answered
WillAppend(tid, symbol) ==
  /\ Assembling(tid, symbol)
  /\ task[tid].inflight # {}
  /\ task[tid].inflight \subseteq FuturesRequests
  /\ ~DeriveRaises(task[tid].loc)

\* C13: across the poll loop and the /api/now cache-miss path, at most one
\* assembly that will append to a given instrument's history is in progress
\* at any time.
C13_SingleWriterPerInstrument ==
  \A symbol \in {"ALICEUSDT", "LUMIAUSDT"} :
    Cardinality({tid \in Tasks : WillAppend(tid, symbol)}) <= 1

\* a membership flag that is cached keeps its value in the step
FlagsKept(flags, flagsNext) ==
  \A symbol \in DOMAIN flags : symbol \in DOMAIN flagsNext /\ flagsNext[symbol] = flags[symbol]

\* C14: once a spot or linear-futures membership flag has been cached for an
\* instrument, no step of any interleaving of poll and on-demand assemblies
\* overwrites it with a different value.
C14_FlagsNeverOverwritten ==
  [][FlagsKept(spotListed, spotListed') /\ FlagsKept(usdMListed, usdMListed')]_vars

(***************************************************************************)
(* COIN-M catalog                                                          *)
(***************************************************************************)
\* an upstream where the instruments are on neither spot nor USD-M and the
\* COIN-M catalog may fail, list no perpetual contract, or list ALICE's
CatalogEnv ==
  [FullEnv EXCEPT !.spotInfo = {FALSE}, !.usdmInfo = {FALSE},
                  !.dpi = {Some(Premium)}, !.dfh = {Some(<<2, -1>>)},
                  !.dliq = {Some(<<Liq>>)}]

\* the bootstrap pass over the default instruments, and /api/now requests
InitCatalog ==
  Loaded([unitMs |-> CoarseUnitMs, pollMs |-> POLL_SECONDS * 1000, tracked |-> SYMBOLS,
          env |-> CatalogEnv, horizon |-> 0, aligned |-> FALSE])

NextCatalog ==
  \/ \E tid \in Tasks : \E r \in task[tid].inflight : Respond(tid, r)
  \/ \E symbols \in RequestLists : GetNow(symbols)

SpecCatalog == InitCatalog /\ [][NextCatalog]_vars

\* the requests item k of a run has issued (run.now: those in flight for the
\* item being assembled)
Issued(run, k) ==
  run.trace[k].ok \cup run.trace[k].failed \cup (IF k = run.i THEN run.inflight ELSE {})

\* the passes and requests in progress and the one that has just ended, with
\* the position of each
Positions ==
  {[trace |-> task[tid].trace, i |-> task[tid].i, inflight |-> task[tid].inflight] :
     tid \in {x \in Tasks : task[x].kind # "idle"}}
  \cup (IF resp.kind = "none" THEN {}
        ELSE {[trace |-> resp.trace, i |-> 0, inflight |-> {}]})

ScanIssued(tid) ==
  /\ "coinmInfo" \in task'[tid].inflight
  /\ \/ "coinmInfo" \notin task[tid].inflight
     \/ task'[tid].i # task[tid].i

\* item k of the run is past venue resolution
ResolvedItem(run, k) ==
  /\ run.trace[k].built
  /\ (k = run.i => run.inflight \cap {"spotInfo", "usdmInfo", "coinmInfo"} = {})

SpotRequests == {"spot24", "kl15", "kl4h"}
LinearRequests == {"pi", "fh", "oi", "oih", "liq"}
InverseRequests == {"dpi", "dfh", "dliq"}

\* the metric requests buildSnapshot issues for the venues m
Selected(m) ==
  (IF m.spot THEN SpotRequests ELSE {})
  \cup (IF m.usdM THEN LinearRequests
        ELSE IF m.coinM THEN InverseRequests ELSE {})

\* the metric requests the assembly in progress in task tid has issued
MetricsIssued(tid) ==
  LET t == task[tid]
  IN IF t.kind = "idle" \/ t.i > Len(t.trace) THEN {}
     ELSE (t.trace[t.i].ok \cup t.trace[t.i].failed \cup t.inflight)
            \ {"spotInfo", "usdmInfo", "coinmInfo"}

\* C16: an assembly issues spot metric requests only for an instrument
\* resolved as spot-listed, COIN-M metric requests only when the instrument
\* is not USD-M-listed and has an inverse contract, and only USD-M futures
\* requests when it is USD-M-listed, inverse contract or not; a completed
\* snapshot has issued exactly the requests of the venues it reports.
C16_VenueSelection ==
  /\ \A tid \in Tasks :
       LET m == [spot |-> task[tid].m.spot, usdM |-> task[tid].m.usdM,
                 coinM |-> task[tid].m.coinM # Null]
       IN MetricsIssued(tid) \subseteq Selected(m)
  /\ \A b \in Built :
       ~IsDegraded(b.rec) =>
         LET issued == b.item.ok \cup b.item.failed
         IN /\ issued \cap SpotRequests # {} => b.rec.markets.spot
            /\ issued \cap InverseRequests # {} =>
                 ~b.rec.markets.usdM /\ b.rec.markets.coinM
            /\ b.rec.markets.usdM => issued \cap InverseRequests = {}
            /\ issued \ {"spotInfo", "usdmInfo", "coinmInfo"} = Selected(b.rec.markets)

\* a snapshot of an instrument that is USD-M-listed and has an inverse
\* contract but is not on spot: USD-M requests only
C16_Witness ==
  /\ resp.kind = "boot"
  /\ \E k \in 1 .. Len(resp.out) :
       /\ ~IsDegraded(resp.out[k])
       /\ resp.out[k].markets.usdM
       /\ resp.out[k].markets.coinM
       /\ ~resp.out[k].markets.spot
       /\ resp.trace[k].ok \cup resp.trace[k].failed =
            {"spotInfo", "usdmInfo", "coinmInfo"} \cup LinearRequests

(***************************************************************************)
(* Fan-out within one assembly                                             *)
(***************************************************************************)
\* the order of the awaits of lines 223-232 and of lines 237-245
LinearOrder == <<"pi", "fh", "oi", "oih", "liq">>
InverseOrder == <<"dpi", "dfh", "dliq">>

\* the requests of a venue are issued together: none or all of them
Together(issued, venue) == issued \cap venue \in {{}, venue}

\* C17 as stated: in every assembly the metric requests of each venue, spot
\* and futures alike, are all issued before the response of any is awaited.
C17_VenueRequestsIssuedTogether ==
  \A tid \in Tasks :
    /\ Together(MetricsIssued(tid), SpotRequests)
    /\ Together(MetricsIssued(tid), LinearRequests)
    /\ Together(MetricsIssued(tid), InverseRequests)

\* the requests of a venue are issued one after the other in order, each
\* once its predecessor has been answered
OneByOne(issued, inflight, order) ==
  \E n \in 0 .. Len(order) :
    /\ issued \cap Range(order) = {order[k] : k \in 1 .. n}
    /\ inflight \cap Range(order) \subseteq (IF n = 0 THEN {} ELSE {order[n]})

\* C17 amended: the three spot requests are issued together and awaited
\* jointly, no futures request being issued while one of them is
\* unanswered; the futures requests are issued one at a time, each after
\* the previous one has been answered.
C17_SpotTogetherFuturesOneByOne ==
  \A tid \in Tasks :
    /\ Together(MetricsIssued(tid), SpotRequests)
    /\ task[tid].inflight \cap SpotRequests # {} =>
         MetricsIssued(tid) \subseteq SpotRequests
    /\ OneByOne(MetricsIssued(tid), task[tid].inflight, LinearOrder)
    /\ OneByOne(MetricsIssued(tid), task[tid].inflight, InverseOrder)

\* an assembly whose three spot requests have been answered, one of them
\* with a failure, and that awaits its third futures request alone
C17_Witness ==
  \E tid \in Tasks :
    /\ task[tid].kind # "idle"
    /\ task[tid].inflight = {"oi"}
    /\ LET item == task[tid].trace[task[tid].i]
       IN /\ SpotRequests \subseteq item.ok \cup item.failed
          /\ item.failed \cap SpotRequests # {}
          /\ {"pi", "fh"} \subseteq item.ok \cup item.failed

(***************************************************************************)
(* Store                                                                   *)
(***************************************************************************)
\* C18: for every instrument present in the store the history is non-empty,
\* is ordered by non-decreasing fetchedAt, and ends with the cached latest
\* snapshot, in every interleaving of poll passes and /api/now requests.
C18_StoreInvariant ==
  \A symbol \in DOMAIN store :
    LET h == store[symbol].history
    IN /\ Len(h) > 0
       /\ \A k \in 1 .. (Len(h) - 1) : h[k].fetchedAt <= h[k + 1].fetchedAt
       /\ h[Len(h)] = store[symbol].snapshot

\* an /api/now request that met a cache miss has assembled and appended
\* while the bootstrap pass did too, and a later pass has appended at a
\* later clock reading
C18_Witness ==
  /\ "ALICEUSDT" \in DOMAIN store
  /\ \E tid \in NowTasks :
       /\ task[tid].kind = "idle"
       /\ gets > 0
  /\ Len(appended["ALICEUSDT"]) >= 3
  /\ \E k \in 1 .. (Len(store["ALICEUSDT"].history) - 1) :
       store["ALICEUSDT"].history[k].fetchedAt < store["ALICEUSDT"].history[k + 1].fetchedAt
  /\ \E k \in 1 .. (Len(appended["ALICEUSDT"]) - 1) :
       appended["ALICEUSDT"][k].at = appended["ALICEUSDT"][k + 1].at

(***************************************************************************)
(* Failed assembly                                                         *)
(***************************************************************************)
\* in the step, buildSnapshot returns a degraded record to task tid
DegradedReturned(tid) ==
  /\ task[tid].kind # "idle"
  /\ LET i == task[tid].i
         outNext == IF task'[tid].kind = "idle" THEN resp'.out ELSE task'[tid].out
     IN /\ Len(task[tid].out) < i
        /\ (task'[tid].kind = "idle" => resp'.kind # "none")
        /\ Len(outNext) >= i
        /\ IsDegraded(outNext[i])

\* C19: a step in which buildSnapshot returns a degraded record leaves the
\* store unchanged (nothing appended, nothing cached); no stored snapshot
\* and no history element carries an error descriptor; and /api/now answers
\* an instrument from the cached snapshot when there is one and assembles
\* only when there is none.
C19_DegradedLeavesStoreUnchanged ==
  /\ [][\A tid \in Tasks :
          DegradedReturned(tid) => store' = store /\ appended' = appended]_vars
  /\ [](\A symbol \in DOMAIN store :
          /\ ~IsDegraded(store[symbol].snapshot)
          /\ \A k \in 1 .. Len(store[symbol].history) :
               ~IsDegraded(store[symbol].history[k]))
  /\ [](\A run \in NowRuns :
          \A k \in 1 .. Len(run.out) :
            IF run.trace[k].built THEN run.trace[k].cur = Null
            ELSE run.out[k] = Val(run.trace[k].cur) /\ ~IsDegraded(run.out[k]))

\* the bootstrap pass stored a snapshot, every later pass returned a
\* degraded record, and /api/now answers with the snapshot of the bootstrap
C19_Witness ==
  /\ polls >= 1
  /\ \A tid \in Tasks : task[tid].kind = "idle"
  /\ "ALICEUSDT" \in DOMAIN store
  /\ Len(appended["ALICEUSDT"]) = 1
  /\ appended["ALICEUSDT"][1].at = 0
  /\ now >= 1
  /\ resp.kind = "now"
  /\ ~resp.trace[1].built
  /\ resp.out[1] = appended["ALICEUSDT"][1].snap

(***************************************************************************)
(* Bounds of the signal                                                    *)
(***************************************************************************)
\* the 15-minute price delta of the bundle is known and at most -3.0 %:
\* (now - ago) / ago * 100 <= -3 with ago # 0, the division by a negative
\* ago reversing the comparison
PriceDownMove ==
  /\ bundle.price15mAgo # Null
  /\ bundle.priceNow # Null
  /\ Val(bundle.price15mAgo) # 0
  /\ LET ago == Val(bundle.price15mAgo)
         diff == (Val(bundle.priceNow) - ago) * 100
     IN IF ago > 0 THEN diff <= (0 - PRICE_MOVE_15M_PCT) * ago
        ELSE diff >= (0 - PRICE_MOVE_15M_PCT) * ago

\* C20: for every bundle the score lies in -3 .. 6, and SELL is returned
\* only if the 15-minute price delta is known and <= -3.0 %.
C20_ScoreRangeAndSellNeedsPriceDrop ==
  Evaluated =>
    /\ sig.score \in -3 .. 6
    /\ sig.signal = "SELL" => PriceDownMove

\* the lowest score: a price drop of 3 % or more with crowded longs
C20_Witness ==
  /\ Evaluated
  /\ sig.score = -3
  /\ sig.signal = "SELL"
  /\ PriceDownMove
  /\ bundle.fundingNow = Some(16)

====
